---- MODULE Spec2Model ----
(***************************************************************************)
(* Model of the M2 bootloader flash layer (bootloader/src/flash.rs), the   *)
(* verification helpers (bootloader/src/verify.rs) and the firmware update *)
(* session (bootloader/src/updater.rs), run against the in-memory          *)
(* MockFlash device.                                                       *)
(*                                                                         *)
(* Bytes are real u8 values; the bitwise AND of program_page and the       *)
(* CRC-32 (IEEE, reflected) of crc32fast are computed bit by bit.  A u32   *)
(* is represented by the set of its 1-bit positions (0..31), because the   *)
(* model checker's integers are 32-bit signed.                             *)
(***************************************************************************)
EXTENDS Integers, Sequences, FiniteSets, TLC

VARIABLES storage, sector_size, page_size, sessions, last

vars == <<storage, sector_size, page_size, sessions, last>>

----------------------------------------------------------------------------
(* Bounds of the explored inputs.                                          *)

\* longest data slice handed to program_page / write_region / write_chunk
MaxData == 2
\* largest image_size of an UpdateMetadata
MaxImage == 2

\* byte values used as inputs; closed under bitwise AND
ByteVals == {85, 255}

\* device geometries <<size, sector_size, page_size>> of MockFlash::new
Geometries == {<<4, 2, 1>>, <<4, 2, 2>>, <<2, 1, 1>>}

\* usize::MAX of the modelled target; only (usize::MAX / sector) matters and
\* it exceeds every sector index of the devices above
USIZE_MAX == 65535

----------------------------------------------------------------------------
(* Bit-level helpers.                                                      *)

Pow2(n) == IF n = 0 THEN 1 ELSE IF n = 1 THEN 2 ELSE IF n = 2 THEN 4
           ELSE IF n = 3 THEN 8 ELSE IF n = 4 THEN 16 ELSE IF n = 5 THEN 32
           ELSE IF n = 6 THEN 64 ELSE 128

\* bit i of a u8
Bit(b, i) == (b \div Pow2(i)) % 2

\* u8 & u8
BitAnd(a, b) ==
    LET m(i) == Bit(a, i) * Bit(b, i) * Pow2(i)
    IN m(0) + m(1) + m(2) + m(3) + m(4) + m(5) + m(6) + m(7)

\* the 1-bit positions of a u8
Bits8(b) == {i \in 0..7 : Bit(b, i) = 1}

\* u32 ^ u32 on bit sets
Xor32(A, B) == (A \ B) \cup (B \ A)

\* u32 >> 1 on bit sets
Shr1(A) == {i - 1 : i \in A \ {0}}

ERASED == 255

----------------------------------------------------------------------------
(* FlashError and Result values.                                           *)

FlashOk == [kind |-> "Ok", msg |-> "", addr |-> 0, expected |-> 0, found |-> 0]

OutOfBounds == [kind |-> "OutOfBounds", msg |-> "", addr |-> 0, expected |-> 0, found |-> 0]

AlignmentError == [kind |-> "AlignmentError", msg |-> "", addr |-> 0, expected |-> 0, found |-> 0]

DeviceError(s) == [kind |-> "DeviceError", msg |-> s, addr |-> 0, expected |-> 0, found |-> 0]

VerificationFailed(a, e, f) ==
    [kind |-> "VerificationFailed", msg |-> "", addr |-> a, expected |-> e, found |-> f]

\* an arithmetic panic (overflow check of a debug build, division by zero)
Panicked == [kind |-> "Panic", msg |-> "", addr |-> 0, expected |-> 0, found |-> 0]

\* one primitive device call, as recorded in the trace of an operation
Call(op, a, n, r) == [op |-> op, addr |-> a, len |-> n, res |-> r.kind]

----------------------------------------------------------------------------
(* MockFlash primitives.  st is the storage vector, a function on          *)
(* 0..size-1.  Each returns the new storage and the Result.                *)

size(st) == Cardinality(DOMAIN st)

\* the bytes st[addr..addr+n) as a sequence
Slice(st, addr, n) == [i \in 1..n |-> st[addr + i - 1]]

read(st, addr, n) ==
    IF addr + n > size(st)
    THEN [res |-> OutOfBounds, buf |-> <<>>]
    ELSE [res |-> FlashOk, buf |-> Slice(st, addr, n)]

\* erase_sector whose fill stops one byte before the end of the sector
erase_sector_short(st, addr) ==
    IF addr >= size(st) THEN [storage |-> st, res |-> OutOfBounds]
    ELSE IF sector_size = 0 THEN [storage |-> st, res |-> Panicked]
    ELSE IF addr % sector_size # 0 THEN [storage |-> st, res |-> AlignmentError]
    ELSE IF addr + sector_size > size(st) THEN [storage |-> st, res |-> OutOfBounds]
    ELSE [storage |-> [a \in DOMAIN st |->
                         IF a >= addr /\ a < addr + sector_size - 1 THEN ERASED ELSE st[a]],
          res |-> FlashOk]

\* erase_sector that erases the whole device
erase_sector_chip(st, addr) ==
    IF addr >= size(st) THEN [storage |-> st, res |-> OutOfBounds]
    ELSE IF sector_size = 0 THEN [storage |-> st, res |-> Panicked]
    ELSE IF addr % sector_size # 0 THEN [storage |-> st, res |-> AlignmentError]
    ELSE IF addr + sector_size > size(st) THEN [storage |-> st, res |-> OutOfBounds]
    ELSE [storage |-> [a \in DOMAIN st |-> ERASED], res |-> FlashOk]

erase_sector(st, addr) ==
    IF addr >= size(st) THEN [storage |-> st, res |-> OutOfBounds]
    ELSE IF sector_size = 0 THEN [storage |-> st, res |-> Panicked]
    ELSE IF addr % sector_size # 0 THEN [storage |-> st, res |-> AlignmentError]
    ELSE IF addr + sector_size > size(st) THEN [storage |-> st, res |-> OutOfBounds]
    ELSE [storage |-> [a \in DOMAIN st |->
                         IF a >= addr /\ a < addr + sector_size THEN ERASED ELSE st[a]],
          res |-> FlashOk]

\* program_loop storing the data byte without the 0->1 check
RECURSIVE program_loop_overwrite(_, _, _, _)
program_loop_overwrite(st, addr, data, i) ==
    IF i > Len(data) THEN [storage |-> st, res |-> FlashOk]
    ELSE program_loop_overwrite([st EXCEPT ![addr + i - 1] = data[i]],
                                addr, data, i + 1)

\* program_loop storing the data byte before it checks the 0->1 transition
RECURSIVE program_loop_late_check(_, _, _, _)
program_loop_late_check(st, addr, data, i) ==
    IF i > Len(data) THEN [storage |-> st, res |-> FlashOk]
    ELSE LET b == data[i]
             dst == st[addr + i - 1]
             st2 == [st EXCEPT ![addr + i - 1] = b]
         IN IF BitAnd(b, dst) # b
            THEN [storage |-> st2, res |-> DeviceError("attempt to program 0->1")]
            ELSE program_loop_late_check(st2, addr, data, i + 1)

\* program_loop that checks every byte but never stores one
RECURSIVE program_loop_no_store(_, _, _, _)
program_loop_no_store(st, addr, data, i) ==
    IF i > Len(data) THEN [storage |-> st, res |-> FlashOk]
    ELSE IF BitAnd(data[i], st[addr + i - 1]) # data[i]
    THEN [storage |-> st, res |-> DeviceError("attempt to program 0->1")]
    ELSE program_loop_no_store(st, addr, data, i + 1)

\* the byte loop of program_page, from data index i (1-based) on
RECURSIVE program_loop(_, _, _, _)
program_loop(st, addr, data, i) ==
    IF i > Len(data) THEN [storage |-> st, res |-> FlashOk]
    ELSE LET b == data[i]
             dst == st[addr + i - 1]
         IN IF BitAnd(b, dst) # b
            THEN [storage |-> st, res |-> DeviceError("attempt to program 0->1")]
            ELSE program_loop([st EXCEPT ![addr + i - 1] = BitAnd(dst, b)],
                              addr, data, i + 1)

program_page(st, addr, data) ==
    IF addr >= size(st) THEN [storage |-> st, res |-> OutOfBounds]
    ELSE IF Len(data) > page_size THEN [storage |-> st, res |-> AlignmentError]
    ELSE IF addr + Len(data) > size(st) THEN [storage |-> st, res |-> OutOfBounds]
    ELSE program_loop(st, addr, data, 1)

----------------------------------------------------------------------------
(* Default methods of the Flash trait (std build).  Each returns the new   *)
(* storage, the Result and the trace of primitive device calls it issued.  *)

\* first_mismatch that keeps scanning and returns the last differing index
RECURSIVE last_mismatch(_, _, _)
last_mismatch(data, buf, i) ==
    IF i > Len(data) \/ i > Len(buf) THEN -1
    ELSE LET r == last_mismatch(data, buf, i + 1)
         IN IF r >= 0 THEN r ELSE IF data[i] # buf[i] THEN i - 1 ELSE -1

\* index (0-based) of the first byte where data and buf differ, or -1
RECURSIVE first_mismatch(_, _, _)
first_mismatch(data, buf, i) ==
    IF i > Len(data) \/ i > Len(buf) THEN -1
    ELSE IF data[i] # buf[i] THEN i - 1
    ELSE first_mismatch(data, buf, i + 1)

verify(st, addr, data) ==
    LET r == read(st, addr, Len(data))
        tr == <<Call("read", addr, Len(data), r.res)>>
    IN IF r.res.kind # "Ok" THEN [res |-> r.res, trace |-> tr]
       ELSE LET i == first_mismatch(data, r.buf, 1)
            IN IF i >= 0
               THEN [res |-> VerificationFailed(addr + i, data[i + 1], r.buf[i + 1]),
                     trace |-> tr]
               ELSE [res |-> FlashOk, trace |-> tr]

\* for s in s..=end_sector { erase_sector(s * sector)? }
RECURSIVE erase_range(_, _, _, _)
erase_range(st, s, end_sector, tr) ==
    IF s > end_sector THEN [storage |-> st, res |-> FlashOk, trace |-> tr]
    ELSE LET e == erase_sector(st, s * sector_size)
             tr2 == Append(tr, Call("erase_sector", s * sector_size, sector_size, e.res))
         IN IF e.res.kind # "Ok"
            THEN [storage |-> e.storage, res |-> e.res, trace |-> tr2]
            ELSE erase_range(e.storage, s + 1, end_sector, tr2)

Min(a, b) == IF a < b THEN a ELSE b

\* while offset < data.len() { program_page; verify; offset += write_len }
RECURSIVE page_loop(_, _, _, _, _)
page_loop(st, addr, data, offset, tr) ==
    IF offset >= Len(data) THEN [storage |-> st, res |-> FlashOk, trace |-> tr]
    ELSE LET write_addr == addr + offset
             remain == Len(data) - offset
             write_len == Min(remain, page_size)
             page_slice == SubSeq(data, offset + 1, offset + write_len)
             p == program_page(st, write_addr, page_slice)
             tr2 == Append(tr, Call("program_page", write_addr, write_len, p.res))
         IN IF p.res.kind # "Ok"
            THEN [storage |-> p.storage, res |-> p.res, trace |-> tr2]
            ELSE LET v == verify(p.storage, write_addr, page_slice)
                     tr3 == tr2 \o v.trace
                 IN IF v.res.kind # "Ok"
                    THEN [storage |-> p.storage, res |-> v.res, trace |-> tr3]
                    ELSE page_loop(p.storage, addr, data, offset + write_len, tr3)

\* write_region without the bounds check of its first statement
write_region_no_bounds(st, addr, data, wrap) ==
    IF sector_size = 0
    THEN [storage |-> st, res |-> DeviceError("invalid sector size"), trace |-> <<>>]
    ELSE IF addr + Len(data) = 0 /\ ~wrap
    THEN [storage |-> st, res |-> Panicked, trace |-> <<>>]
    ELSE LET start_sector == addr \div sector_size
             end_sector == IF addr + Len(data) = 0
                           THEN USIZE_MAX \div sector_size
                           ELSE (addr + Len(data) - 1) \div sector_size
             e == erase_range(st, start_sector, end_sector, <<>>)
         IN IF e.res.kind # "Ok" THEN e
            ELSE IF page_size = 0
            THEN [storage |-> e.storage, res |-> DeviceError("invalid page size"),
                  trace |-> e.trace]
            ELSE page_loop(e.storage, addr, data, 0, e.trace)

\* wrap is TRUE for a build without overflow checks (release), FALSE for a
\* build with them (debug): addr + data.len() - 1 underflows when both are 0
write_region(st, addr, data, wrap) ==
    IF addr + Len(data) > size(st)
    THEN [storage |-> st, res |-> OutOfBounds, trace |-> <<>>]
    ELSE IF sector_size = 0
    THEN [storage |-> st, res |-> DeviceError("invalid sector size"), trace |-> <<>>]
    ELSE IF addr + Len(data) = 0 /\ ~wrap
    THEN [storage |-> st, res |-> Panicked, trace |-> <<>>]
    ELSE LET start_sector == addr \div sector_size
             end_sector == IF addr + Len(data) = 0
                           THEN USIZE_MAX \div sector_size
                           ELSE (addr + Len(data) - 1) \div sector_size
             e == erase_range(st, start_sector, end_sector, <<>>)
         IN IF e.res.kind # "Ok" THEN e
            ELSE IF page_size = 0
            THEN [storage |-> e.storage, res |-> DeviceError("invalid page size"),
                  trace |-> e.trace]
            ELSE page_loop(e.storage, addr, data, 0, e.trace)

----------------------------------------------------------------------------
(* CRC-32 as computed by crc32fast::hash: polynomial 0xEDB88320            *)
(* (reflected), initial value and final XOR 0xFFFFFFFF.                    *)

CRC_POLY == {31, 30, 29, 27, 26, 24, 23, 21, 20, 19, 15, 9, 8, 5}

ALL_ONES == 0..31

RECURSIVE crc_shift(_, _)
crc_shift(c, k) ==
    IF k = 0 THEN c
    ELSE crc_shift(IF 0 \in c THEN Xor32(Shr1(c), CRC_POLY) ELSE Shr1(c), k - 1)

\* the 256-entry lookup table of the byte-wise algorithm
CRC32_TABLE == [k \in 0..255 |-> crc_shift(Bits8(k), 8)]

\* (u32 & 0xFF) as a table index
Low8(c) ==
    LET v(i) == IF i \in c THEN Pow2(i) ELSE 0
    IN v(0) + v(1) + v(2) + v(3) + v(4) + v(5) + v(6) + v(7)

\* u32 >> 8 on bit sets
Shr8(c) == {i - 8 : i \in c \ (0..7)}

\* crc = TABLE[(crc ^ byte) & 0xFF] ^ (crc >> 8), for each byte of buf
RECURSIVE crc_update(_, _, _)
crc_update(c, buf, i) ==
    IF i > Len(buf) THEN c
    ELSE crc_update(Xor32(CRC32_TABLE[Low8(Xor32(c, Bits8(buf[i])))], Shr8(c)),
                    buf, i + 1)

hash(buf) == Xor32(crc_update(ALL_ONES, buf, 1), ALL_ONES)

\* crc32 reading its n bytes from the start of the device
crc32_from_zero(st, addr, n) ==
    IF addr + n > size(st)
    THEN [res |-> OutOfBounds, crc |-> {}, trace |-> <<>>]
    ELSE LET r == read(st, 0, n)
             tr == <<Call("read", 0, n, r.res)>>
         IN IF r.res.kind # "Ok" THEN [res |-> r.res, crc |-> {}, trace |-> tr]
            ELSE [res |-> FlashOk, crc |-> hash(r.buf), trace |-> tr]

crc32(st, addr, n) ==
    IF addr + n > size(st)
    THEN [res |-> OutOfBounds, crc |-> {}, trace |-> <<>>]
    ELSE LET r == read(st, addr, n)
             tr == <<Call("read", addr, n, r.res)>>
         IN IF r.res.kind # "Ok" THEN [res |-> r.res, crc |-> {}, trace |-> tr]
            ELSE [res |-> FlashOk, crc |-> hash(r.buf), trace |-> tr]

\* verify.rs
verify_crc(st, addr, n, expected_crc) ==
    LET c == crc32(st, addr, n)
    IN IF c.res.kind # "Ok" THEN [res |-> c.res, ok |-> FALSE, trace |-> c.trace]
       ELSE [res |-> FlashOk, ok |-> (c.crc = expected_crc), trace |-> c.trace]

\* verify.rs: the length of the read window `buf` of verify_bytes
BUF_LEN == 256

\* window_loop comparing every window, whatever stop_on_mismatch is
RECURSIVE window_loop_always(_, _, _, _, _, _)
window_loop_always(st, addr, reference, stop_on_mismatch, offset, tr) ==
    IF offset >= Len(reference) THEN [res |-> FlashOk, ok |-> TRUE, trace |-> tr]
    ELSE LET chunk == Min(BUF_LEN, Len(reference) - offset)
             r == read(st, addr + offset, chunk)
             tr2 == Append(tr, Call("read", addr + offset, chunk, r.res))
         IN IF r.res.kind # "Ok" THEN [res |-> r.res, ok |-> FALSE, trace |-> tr2]
            ELSE IF r.buf # SubSeq(reference, offset + 1, offset + chunk)
            THEN [res |-> FlashOk, ok |-> FALSE, trace |-> tr2]
            ELSE window_loop_always(st, addr, reference, stop_on_mismatch,
                                    offset + chunk, tr2)

\* while offset < reference.len() { read a window; compare; offset += chunk }
RECURSIVE window_loop(_, _, _, _, _, _)
window_loop(st, addr, reference, stop_on_mismatch, offset, tr) ==
    IF offset >= Len(reference) THEN [res |-> FlashOk, ok |-> TRUE, trace |-> tr]
    ELSE LET chunk == Min(BUF_LEN, Len(reference) - offset)
             r == read(st, addr + offset, chunk)
             tr2 == Append(tr, Call("read", addr + offset, chunk, r.res))
         IN IF r.res.kind # "Ok" THEN [res |-> r.res, ok |-> FALSE, trace |-> tr2]
            ELSE IF stop_on_mismatch
                    /\ r.buf # SubSeq(reference, offset + 1, offset + chunk)
            THEN [res |-> FlashOk, ok |-> FALSE, trace |-> tr2]
            ELSE window_loop(st, addr, reference, stop_on_mismatch,
                             offset + chunk, tr2)

verify_bytes(st, addr, reference, stop_on_mismatch) ==
    window_loop(st, addr, reference, stop_on_mismatch, 0, <<>>)

----------------------------------------------------------------------------
(* updater.rs: UpdateError, UpdateMetadata and FirmwareUpdater.            *)

UpdateOk == [kind |-> "Ok", msg |-> "", flash |-> FlashOk]

UpdateFlash(e) == [kind |-> IF e.kind = "Panic" THEN "Panic" ELSE "Flash",
                   msg |-> "", flash |-> e]

InvalidSize == [kind |-> "InvalidSize", msg |-> "", flash |-> FlashOk]

CrcMismatch == [kind |-> "CrcMismatch", msg |-> "", flash |-> FlashOk]

TransferIncomplete == [kind |-> "TransferIncomplete", msg |-> "", flash |-> FlashOk]

Other(s) == [kind |-> "Other", msg |-> s, flash |-> FlashOk]

\* FirmwareUpdater { flash, meta, written }; delivered is the history of the
\* data of the chunks accepted so far (not a field of the code)
FirmwareUpdater(meta) == [meta |-> meta, written |-> 0, delivered |-> <<>>]

\* while addr < target_addr + image_size { erase_sector(addr)?; addr += sector }
RECURSIVE begin_loop(_, _, _, _)
begin_loop(st, meta, addr, tr) ==
    IF addr >= meta.target_addr + meta.image_size
    THEN [storage |-> st, res |-> FlashOk, trace |-> tr]
    ELSE LET e == erase_sector(st, addr)
             tr2 == Append(tr, Call("erase_sector", addr, sector_size, e.res))
         IN IF e.res.kind # "Ok"
            THEN [storage |-> e.storage, res |-> e.res, trace |-> tr2]
            ELSE begin_loop(e.storage, meta, addr + sector_size, tr2)

\* begin_update without the image_size check
begin_update_any_size(st, meta) ==
    LET e == begin_loop(st, meta, meta.target_addr, <<>>)
    IN IF e.res.kind # "Ok"
       THEN [storage |-> e.storage, res |-> UpdateFlash(e.res),
             trace |-> e.trace, created |-> {}]
       ELSE [storage |-> e.storage, res |-> UpdateOk,
             trace |-> e.trace, created |-> {FirmwareUpdater(meta)}]

begin_update(st, meta) ==
    IF meta.image_size = 0
    THEN [storage |-> st, res |-> InvalidSize, trace |-> <<>>, created |-> {}]
    ELSE LET e == begin_loop(st, meta, meta.target_addr, <<>>)
         IN IF e.res.kind # "Ok"
            THEN [storage |-> e.storage, res |-> UpdateFlash(e.res),
                  trace |-> e.trace, created |-> {}]
            ELSE [storage |-> e.storage, res |-> UpdateOk,
                  trace |-> e.trace, created |-> {FirmwareUpdater(meta)}]

\* write_chunk without the offset check
write_chunk_any_offset(st, self, offset, data, wrap) ==
    LET abs_addr == self.meta.target_addr + offset
        w == write_region(st, abs_addr, data, wrap)
    IN IF w.res.kind # "Ok"
       THEN [storage |-> w.storage, self |-> self,
             res |-> UpdateFlash(w.res), trace |-> w.trace]
       ELSE [storage |-> w.storage,
             self |-> [self EXCEPT !.written = self.written + Len(data),
                                   !.delivered = self.delivered \o data],
             res |-> UpdateOk, trace |-> w.trace]

\* write_chunk adding data.len() to written before write_region has returned
write_chunk_count_first(st, self, offset, data, wrap) ==
    IF offset # self.written
    THEN [storage |-> st, self |-> self, res |-> Other("Offset mismatch"), trace |-> <<>>]
    ELSE LET abs_addr == self.meta.target_addr + offset
             w == write_region(st, abs_addr, data, wrap)
             counted == [self EXCEPT !.written = self.written + Len(data)]
         IN IF w.res.kind # "Ok"
            THEN [storage |-> w.storage, self |-> counted,
                  res |-> UpdateFlash(w.res), trace |-> w.trace]
            ELSE [storage |-> w.storage,
                  self |-> [counted EXCEPT !.delivered = self.delivered \o data],
                  res |-> UpdateOk, trace |-> w.trace]

write_chunk(st, self, offset, data, wrap) ==
    IF offset # self.written
    THEN [storage |-> st, self |-> self, res |-> Other("Offset mismatch"), trace |-> <<>>]
    ELSE LET abs_addr == self.meta.target_addr + offset
             w == write_region(st, abs_addr, data, wrap)
         IN IF w.res.kind # "Ok"
            THEN [storage |-> w.storage, self |-> self,
                  res |-> UpdateFlash(w.res), trace |-> w.trace]
            ELSE [storage |-> w.storage,
                  self |-> [self EXCEPT !.written = self.written + Len(data),
                                        !.delivered = self.delivered \o data],
                  res |-> UpdateOk, trace |-> w.trace]

\* finalize_update that reads the region but ignores the comparison
finalize_update_no_crc(st, self) ==
    IF self.written # self.meta.image_size
    THEN [res |-> TransferIncomplete, trace |-> <<>>]
    ELSE LET v == verify_crc(st, self.meta.target_addr, self.meta.image_size,
                             self.meta.expected_crc)
         IN IF v.res.kind # "Ok" THEN [res |-> UpdateFlash(v.res), trace |-> v.trace]
            ELSE [res |-> UpdateOk, trace |-> v.trace]

\* finalize_update without the completeness check
finalize_update_no_count(st, self) ==
    LET v == verify_crc(st, self.meta.target_addr, self.meta.image_size,
                        self.meta.expected_crc)
    IN IF v.res.kind # "Ok" THEN [res |-> UpdateFlash(v.res), trace |-> v.trace]
       ELSE IF ~v.ok THEN [res |-> CrcMismatch, trace |-> v.trace]
       ELSE [res |-> UpdateOk, trace |-> v.trace]

finalize_update(st, self) ==
    IF self.written # self.meta.image_size
    THEN [res |-> TransferIncomplete, trace |-> <<>>]
    ELSE LET v == verify_crc(st, self.meta.target_addr, self.meta.image_size,
                             self.meta.expected_crc)
         IN IF v.res.kind # "Ok" THEN [res |-> UpdateFlash(v.res), trace |-> v.trace]
            ELSE IF ~v.ok THEN [res |-> CrcMismatch, trace |-> v.trace]
            ELSE [res |-> UpdateOk, trace |-> v.trace]

\* the bytes held at [addr, addr + n) when a call starts (none when the
\* range leaves the device); kept with the call for the properties
stored(st, addr, n) == IF addr + n > size(st) THEN <<>> ELSE Slice(st, addr, n)

\* the exclusive borrow `flash: &'a mut dyn Flash`: the device can be handed
\* to a new session, or used directly, only while no session holds it
device_free == sessions = {}

----------------------------------------------------------------------------
(* Inputs.                                                                 *)

RECURSIVE SeqsOfLen(_)
SeqsOfLen(n) == IF n = 0 THEN {<<>>}
                ELSE {Append(q, b) : q \in SeqsOfLen(n - 1), b \in ByteVals}

DataUpTo(n) == UNION {SeqsOfLen(k) : k \in 0..n}

\* the data slices tried by program_page, write_region and write_chunk
AllData == DataUpTo(MaxData)

Addrs == 0..size(storage)

\* the image of n bytes, all equal to b
Uniform(n, b) == [i \in 1..n |-> b]

\* expected_crc values: the CRC-32 of the uniform images of that size, so
\* that a session can both match and miss the bytes it is given
CrcTable == [n \in 0..MaxImage |-> {hash(Uniform(n, b)) : b \in {85, 255}}]

Crcs(n) == CrcTable[n]

\* builds to consider for a write at (addr, data): only a write of no bytes
\* at address 0 behaves differently with and without overflow checks
Builds(addr, data) == IF addr + Len(data) = 0 THEN BOOLEAN ELSE {TRUE}

Metas == UNION {{[target_addr |-> t, image_size |-> n, expected_crc |-> c] :
                   t \in Addrs, c \in Crcs(n)} : n \in 0..MaxImage}

----------------------------------------------------------------------------
(* State machine: one action per operation of the API.                     *)

Init ==
    /\ \E g \in Geometries :
         /\ storage = [a \in 0..(g[1] - 1) |-> ERASED]
         /\ sector_size = g[2]
         /\ page_size = g[3]
    /\ sessions = {}
    /\ last = [op |-> "new"]

\* devices MockFlash::new also accepts: a sector size or a page size of 0
DegenerateGeometries == {<<2, 0, 1>>, <<2, 1, 0>>}

InitAnyDevice ==
    /\ \E g \in Geometries \cup DegenerateGeometries :
         /\ storage = [a \in 0..(g[1] - 1) |-> ERASED]
         /\ sector_size = g[2]
         /\ page_size = g[3]
    /\ sessions = {}
    /\ last = [op |-> "new"]

Read ==
    \E addr \in Addrs, n \in 0..MaxData :
      /\ device_free
      /\ \E r \in {read(storage, addr, n)} :
            last' = [op |-> "read", addr |-> addr, len |-> n, result |-> r.res,
                     buf |-> r.buf, trace |-> <<Call("read", addr, n, r.res)>>]
      /\ UNCHANGED <<storage, sector_size, page_size, sessions>>

EraseSector ==
    \E addr \in Addrs :
      /\ device_free
      /\ \E e \in {erase_sector(storage, addr)} :
            /\ storage' = e.storage
            /\ last' = [op |-> "erase_sector", addr |-> addr, result |-> e.res,
                        trace |-> <<Call("erase_sector", addr, sector_size, e.res)>>]
      /\ UNCHANGED <<sector_size, page_size, sessions>>

ProgramPage ==
    \E addr \in Addrs, data \in AllData :
      /\ device_free
      /\ \E p \in {program_page(storage, addr, data)} :
            /\ storage' = p.storage
            /\ last' = [op |-> "program_page", addr |-> addr, data |-> data,
                        old |-> stored(storage, addr, Len(data)),
                        result |-> p.res,
                        trace |-> <<Call("program_page", addr, Len(data), p.res)>>]
      /\ UNCHANGED <<sector_size, page_size, sessions>>

WriteRegion ==
    \E addr \in Addrs, data \in AllData : \E wrap \in Builds(addr, data) :
      /\ device_free
      /\ \E w \in {write_region(storage, addr, data, wrap)} :
            /\ storage' = w.storage
            /\ last' = [op |-> "write_region", addr |-> addr, data |-> data,
                        result |-> w.res, trace |-> w.trace]
      /\ UNCHANGED <<sector_size, page_size, sessions>>

\* what a verify follows: the program_page of the same address and data, if
\* that was the previous call
preceding(addr, data) ==
    IF last.op = "program_page" /\ last.addr = addr /\ last.data = data
    THEN [op |-> "program_page", old |-> last.old, result |-> last.result.kind]
    ELSE [op |-> "other", old |-> <<>>, result |-> ""]

Verify ==
    \E addr \in Addrs, data \in AllData :
      /\ device_free
      /\ \E v \in {verify(storage, addr, data)} :
            last' = [op |-> "verify", addr |-> addr, data |-> data,
                     result |-> v.res, trace |-> v.trace,
                     after |-> preceding(addr, data)]
      /\ UNCHANGED <<storage, sector_size, page_size, sessions>>

VerifyBytes ==
    \E addr \in Addrs, reference \in AllData, stop_on_mismatch \in BOOLEAN :
      /\ device_free
      /\ \E v \in {verify_bytes(storage, addr, reference, stop_on_mismatch)} :
            last' = [op |-> "verify_bytes", addr |-> addr, data |-> reference,
                     stop_on_mismatch |-> stop_on_mismatch,
                     result |-> v.res, ok |-> v.ok, trace |-> v.trace]
      /\ UNCHANGED <<storage, sector_size, page_size, sessions>>

Crc32 ==
    \E addr \in Addrs, n \in 0..MaxData :
      /\ device_free
      /\ \E c \in {crc32(storage, addr, n)} :
            last' = [op |-> "crc32", addr |-> addr, len |-> n, result |-> c.res,
                     crc |-> c.crc, trace |-> c.trace]
      /\ UNCHANGED <<storage, sector_size, page_size, sessions>>

VerifyCrc ==
    \E addr \in Addrs, n \in 0..MaxImage : \E expected_crc \in Crcs(n) :
      /\ device_free
      /\ \E v \in {verify_crc(storage, addr, n, expected_crc)} :
            last' = [op |-> "verify_crc", addr |-> addr, len |-> n,
                     expected_crc |-> expected_crc, result |-> v.res,
                     ok |-> v.ok, trace |-> v.trace]
      /\ UNCHANGED <<storage, sector_size, page_size, sessions>>

BeginUpdate ==
    \E meta \in Metas :
      /\ device_free
      /\ \E b \in {begin_update(storage, meta)} :
            /\ storage' = b.storage
            /\ sessions' = sessions \cup b.created
            /\ last' = [op |-> "begin_update", meta |-> meta, result |-> b.res,
                        trace |-> b.trace]
      /\ UNCHANGED <<sector_size, page_size>>

WriteChunk ==
    \E self \in sessions, offset \in Addrs, data \in AllData :
      \E wrap \in Builds(self.meta.target_addr + offset, data) :
      \E w \in {write_chunk(storage, self, offset, data, wrap)} :
         /\ storage' = w.storage
         /\ sessions' = (sessions \ {self}) \cup {w.self}
         /\ last' = [op |-> "write_chunk", offset |-> offset, len |-> Len(data),
                     result |-> w.res, trace |-> w.trace]
         /\ UNCHANGED <<sector_size, page_size>>

\* finalize_update taking &mut self: the session survives the call
FinalizeUpdate_by_ref ==
    \E self \in sessions :
      \E f \in {finalize_update(storage, self)} :
         /\ sessions' = sessions
         /\ last' = [op |-> "finalize_update", self |-> self, result |-> f.res,
                     trace |-> f.trace]
         /\ UNCHANGED <<storage, sector_size, page_size>>

\* finalize_update(mut self) consumes the session
FinalizeUpdate ==
    \E self \in sessions :
      \E f \in {finalize_update(storage, self)} :
         /\ sessions' = sessions \ {self}
         /\ last' = [op |-> "finalize_update", self |-> self, result |-> f.res,
                     trace |-> f.trace]
         /\ UNCHANGED <<storage, sector_size, page_size>>

Next ==
    \/ Read
    \/ EraseSector
    \/ ProgramPage
    \/ WriteRegion
    \/ Verify
    \/ VerifyBytes
    \/ Crc32
    \/ VerifyCrc
    \/ BeginUpdate
    \/ WriteChunk
    \/ FinalizeUpdate

Spec == Init /\ [][Next]_vars

\* the same operations on every device MockFlash::new can build
SpecAnyDevice == InitAnyDevice /\ [][Next]_vars

----------------------------------------------------------------------------
(* Properties.                                                             *)

\* the CRC-32 of the bytes now stored in the image region of session s
RegionCrc(s) == hash(Slice(storage, s.meta.target_addr, s.meta.image_size))

RegionInDevice(s) == s.meta.target_addr + s.meta.image_size <= size(storage)

\* C1: finalize_update returns Ok only when written = image_size and the
\* CRC-32 of the bytes stored in [target_addr, target_addr + image_size)
\* equals expected_crc; with written = image_size and a different CRC it
\* returns CrcMismatch.
C1_FinalizeOnlyVerified ==
    last.op = "finalize_update" =>
      LET s == last.self
      IN /\ last.result.kind = "Ok" =>
              /\ s.written = s.meta.image_size
              /\ RegionInDevice(s)
              /\ RegionCrc(s) = s.meta.expected_crc
         /\ (s.written = s.meta.image_size /\ RegionInDevice(s)
               /\ RegionCrc(s) # s.meta.expected_crc) =>
              last.result = CrcMismatch

\* a finalize_update that accepted an image holding a programmed byte
C1_Witness ==
    /\ last.op = "finalize_update"
    /\ last.result.kind = "Ok"
    /\ \E a \in DOMAIN storage :
         /\ a >= last.self.meta.target_addr
         /\ a < last.self.meta.target_addr + last.self.meta.image_size
         /\ storage[a] # ERASED

\* C2: 0 <= written <= image_size in every state of a session.
C2_WrittenWithinImage ==
    \A s \in sessions : 0 <= s.written /\ s.written <= s.meta.image_size

\* C3: the bytes of [target_addr, target_addr + written) are the data of the
\* accepted chunks, in delivery order.
C3_FlashHoldsDelivered ==
    \A s \in sessions :
      /\ s.meta.target_addr + s.written <= size(storage)
      /\ Slice(storage, s.meta.target_addr, s.written) = s.delivered

\* C4: once the whole image was delivered by accepted chunks, finalize_update
\* with expected_crc = CRC-32 of the delivered bytes returns Ok.
C4_DeliveredImageAccepted ==
    (/\ last.op = "finalize_update"
     /\ Len(last.self.delivered) = last.self.meta.image_size
     /\ last.self.written = last.self.meta.image_size
     /\ hash(last.self.delivered) = last.self.meta.expected_crc)
    => last.result.kind = "Ok"

\* C5: write_chunk with offset # written returns Other("Offset mismatch"),
\* issues no device call and leaves written and every flash byte unchanged.
C5_OffsetMismatchRejected ==
    [][\A s \in sessions :
         (last'.op = "write_chunk" /\ last'.offset # s.written) =>
           /\ last'.result = Other("Offset mismatch")
           /\ last'.trace = <<>>
           /\ storage' = storage
           /\ sessions' = sessions]_vars

\* a rejected write_chunk on a session that had accepted data before
C5_Witness ==
    /\ last.op = "write_chunk"
    /\ last.result.kind = "Other"
    /\ \E s \in sessions : s.written > 0 /\ last.offset # s.written

\* C6: finalize_update with written # image_size returns TransferIncomplete
\* whatever the flash holds and whatever expected_crc is, without any device
\* call and without changing a flash byte.
C6_IncompleteRejected ==
    [][(last'.op = "finalize_update"
          /\ last'.self.written # last'.self.meta.image_size) =>
         /\ last'.result = TransferIncomplete
         /\ last'.trace = <<>>
         /\ storage' = storage]_vars

\* an incomplete session whose region nevertheless has the expected CRC
C6_Witness ==
    /\ last.op = "finalize_update"
    /\ last.self.written # last.self.meta.image_size
    /\ RegionInDevice(last.self)
    /\ RegionCrc(last.self) = last.self.meta.expected_crc
    /\ last.result = TransferIncomplete

\* C7: write_chunk and finalize_update act on a live session only;
\* finalize_update ends the session whatever it returns, a session comes
\* into being by begin_update only, and at most one session holds the device.
C7_SessionLifecycle ==
    [][/\ last'.op \in {"write_chunk", "finalize_update"} => sessions # {}
       /\ last'.op = "finalize_update" =>
            /\ last'.self \in sessions
            /\ sessions' = {}
       /\ (sessions = {} /\ sessions' # {}) => last'.op = "begin_update"
       /\ Cardinality(sessions') <= 1]_vars

\* a session ended by a finalize_update that returned an error
C7_Witness ==
    /\ last.op = "finalize_update"
    /\ last.result = TransferIncomplete
    /\ sessions = {}

\* C8: begin_update with image_size = 0 returns InvalidSize, creates no
\* session and issues no erase.
C8_ZeroSizeRejected ==
    [][(last'.op = "begin_update" /\ last'.meta.image_size = 0) =>
         /\ last'.result = InvalidSize
         /\ last'.trace = <<>>
         /\ sessions' = sessions
         /\ storage' = storage]_vars

\* a rejected begin_update on a device that holds programmed bytes
C8_Witness ==
    /\ last.op = "begin_update"
    /\ last.meta.image_size = 0
    /\ last.result = InvalidSize
    /\ \E a \in DOMAIN storage : storage[a] # ERASED

\* the addresses of the sectors that overlap [addr, addr + n)
CoveringSectors(addr, n) ==
    {a \in DOMAIN storage :
       /\ a \div sector_size >= addr \div sector_size
       /\ a \div sector_size <= (addr + n - 1) \div sector_size}

\* C9: begin_update with image_size > 0 and the image region within the
\* device, at any target_addr, returns Ok with a session of written = 0 and
\* leaves every byte of every overlapping sector erased.
C9_BeginSucceedsInCapacity ==
    (/\ last.op = "begin_update"
     /\ last.meta.image_size > 0
     /\ last.meta.target_addr + last.meta.image_size <= size(storage))
    => /\ last.result.kind = "Ok"
       /\ sessions = {FirmwareUpdater(last.meta)}
       /\ \A a \in CoveringSectors(last.meta.target_addr, last.meta.image_size) :
            storage[a] = ERASED

\* C10: a bit of a flash byte goes from 0 to 1 only in a step that erased
\* the sector containing that byte.
C10_BitsRaisedOnlyByErase ==
    [][\A a \in DOMAIN storage :
         (storage'[a] # storage[a] /\ Bits8(storage'[a]) \ Bits8(storage[a]) # {}) =>
           \E i \in 1..Len(last'.trace) :
             /\ last'.trace[i].op = "erase_sector"
             /\ last'.trace[i].res = "Ok"
             /\ last'.trace[i].addr <= a
             /\ a < last'.trace[i].addr + last'.trace[i].len]_vars

\* a program_page that asked for a 0 -> 1 transition and was refused
C10_Witness ==
    /\ last.op = "program_page"
    /\ last.result.kind = "DeviceError"
    /\ \E i \in 1..Len(last.data) :
         Bits8(last.data[i]) \ Bits8(storage[last.addr + i - 1]) # {}

\* the indices (1-based) of the data bytes with a 1 bit over a stored 0 bit
Raising(old, data) ==
    {i \in 1..Len(data) : i <= Len(old) /\ Bits8(data[i]) \ Bits8(old[i]) # {}}

Lowest(S) == CHOOSE i \in S : \A j \in S : i <= j

\* C11: program_page with the range in the device and data.len() <=
\* page_size returns DeviceError whenever a data byte has a 1 bit where the
\* stored byte has a 0 bit, and the first such stored byte keeps its value.
C11_RaiseRefused ==
    (/\ last.op = "program_page"
     /\ last.addr + Len(last.data) <= size(storage)
     /\ Len(last.data) <= page_size
     /\ Raising(last.old, last.data) # {})
    => LET i == Lowest(Raising(last.old, last.data))
       IN /\ last.result.kind = "DeviceError"
          /\ storage[last.addr + i - 1] = last.old[i]

\* a refused program_page whose violating byte is the second of the page,
\* after a first byte that was programmed
C11_Witness ==
    /\ last.op = "program_page"
    /\ last.result.kind = "DeviceError"
    /\ Raising(last.old, last.data) # {}
    /\ Lowest(Raising(last.old, last.data)) = 2
    /\ storage[last.addr] # last.old[1]

\* C12: program_page(addr, data) followed by verify(addr, data), with the
\* range in the device and data.len() <= page_size: verify returns Ok if and
\* only if no data byte has a 1 bit where the byte stored before the
\* program_page had a 0 bit.
C12_ProgramThenVerify ==
    (/\ last.op = "verify"
     /\ last.after.op = "program_page"
     /\ last.addr + Len(last.data) <= size(storage)
     /\ Len(last.data) <= page_size)
    => (last.result.kind = "Ok" <=> Raising(last.after.old, last.data) = {})

\* a verify that succeeds after a program_page that cleared bits
C12_Witness ==
    /\ last.op = "verify"
    /\ last.after.op = "program_page"
    /\ last.result.kind = "Ok"
    /\ last.after.old # last.data
    /\ Len(last.data) = 2

\* C13: erase_sector(a); erase_sector(a) leaves the contents and returns the
\* Result of the single erase_sector(a), and after an erase that returned
\* Ok every byte of the sector is 0xFF.
C13_EraseIdempotent ==
    last.op = "erase_sector" =>
      LET again == erase_sector(storage, last.addr)
      IN /\ again.storage = storage
         /\ again.res = last.result
         /\ last.result.kind = "Ok" =>
              \A a \in DOMAIN storage :
                (a >= last.addr /\ a < last.addr + sector_size) => storage[a] = ERASED

\* an erase of the second sector while the first holds programmed bytes
C13_Witness ==
    /\ last.op = "erase_sector"
    /\ last.result.kind = "Ok"
    /\ last.addr = sector_size
    /\ \A a \in 0..(sector_size - 1) : storage[a] # ERASED

\* C14: erase_sector(addr) with addr a multiple of sector_size and the
\* sector in the device sets the bytes of [addr, addr + sector_size) to 0xFF
\* and leaves every other byte; with addr outside the device it returns
\* OutOfBounds, with addr inside and not a multiple of sector_size
\* AlignmentError, and changes no byte.
C14_EraseFrame ==
    [][last'.op = "erase_sector" =>
         LET a == last'.addr
         IN /\ a >= size(storage) =>
                 (last'.result = OutOfBounds /\ storage' = storage)
            /\ (a < size(storage) /\ a % sector_size # 0) =>
                 (last'.result = AlignmentError /\ storage' = storage)
            /\ (a % sector_size = 0 /\ a + sector_size <= size(storage)) =>
                 /\ last'.result = FlashOk
                 /\ \A x \in DOMAIN storage :
                      storage'[x] = IF x >= a /\ x < a + sector_size
                                    THEN ERASED ELSE storage[x]]_vars

\* an erase refused for its alignment on a device that holds programmed bytes
C14_Witness ==
    /\ last.op = "erase_sector"
    /\ last.result = AlignmentError
    /\ \E a \in DOMAIN storage : storage[a] # ERASED

\* C15: write_region(addr, data) with [addr, addr + data.len()) in the
\* device returns Ok, whatever the device held, and a following
\* read(addr, data.len()) returns exactly data.
C15_WriteRegionRoundTrip ==
    (/\ last.op = "write_region"
     /\ last.addr + Len(last.data) <= size(storage))
    => /\ last.result.kind = "Ok"
       /\ read(storage, last.addr, Len(last.data)).res = FlashOk
       /\ read(storage, last.addr, Len(last.data)).buf = last.data

\* C16: write_region(addr, data) with addr + data.len() beyond the device
\* returns OutOfBounds before any erase or program: no device call is issued
\* and no byte changes.
C16_WriteRegionOutOfBounds ==
    [][(last'.op = "write_region"
          /\ last'.addr + Len(last'.data) > size(storage)) =>
         /\ last'.result = OutOfBounds
         /\ last'.trace = <<>>
         /\ storage' = storage]_vars

\* a refused write that starts inside a sector holding programmed bytes
C16_Witness ==
    /\ last.op = "write_region"
    /\ last.result = OutOfBounds
    /\ last.addr < size(storage)
    /\ last.addr + Len(last.data) > size(storage)
    /\ storage[last.addr] # ERASED

\* the indices (1-based) at which the stored bytes differ from data
Differing(addr, data) ==
    {i \in 1..Len(data) : storage[addr + i - 1] # data[i]}

\* C17 as stated: verify(addr, expected) with the range in the device
\* returns Ok if and only if every stored byte equals the expected one;
\* otherwise VerificationFailed carrying the lowest mismatching index i as
\* the offset, expected[i] and the byte stored at addr + i.
C17_VerifyReportsOffset ==
    (last.op = "verify" /\ last.addr + Len(last.data) <= size(storage)) =>
      LET D == Differing(last.addr, last.data)
      IN /\ last.result.kind = "Ok" <=> D = {}
         /\ D # {} =>
              last.result = VerificationFailed(Lowest(D) - 1, last.data[Lowest(D)],
                                               storage[last.addr + Lowest(D) - 1])

\* C17 as amended: the error carries the absolute address addr + i of the
\* lowest mismatching index i, with expected[i] and the stored byte.
C17_VerifyReportsAddress ==
    (last.op = "verify" /\ last.addr + Len(last.data) <= size(storage)) =>
      LET D == Differing(last.addr, last.data)
      IN /\ last.result.kind = "Ok" <=> D = {}
         /\ D # {} =>
              last.result = VerificationFailed(last.addr + Lowest(D) - 1,
                                               last.data[Lowest(D)],
                                               storage[last.addr + Lowest(D) - 1])

\* a failed verify above address 0 with two mismatching bytes
C17_Witness ==
    /\ last.op = "verify"
    /\ last.addr > 0
    /\ last.addr + Len(last.data) <= size(storage)
    /\ last.result.kind = "VerificationFailed"
    /\ Cardinality(Differing(last.addr, last.data)) = 2

Observers == {"read", "verify", "crc32", "verify_crc", "verify_bytes"}

\* C19: read, verify, crc32, verify_crc and verify_bytes change no flash
\* byte and no session, whether they succeed or fail; crc32(addr, len) is
\* the CRC-32 of the bytes now in [addr, addr + len) and of nothing else, so
\* repeating a write_region with the same data gives the same checksum;
\* read and crc32 return OutOfBounds when addr + len exceeds the device.
C19_ObserversPure ==
    /\ [][last'.op \in Observers =>
            (storage' = storage /\ sessions' = sessions)]_vars
    /\ [](/\ last.op = "crc32" =>
              IF last.addr + last.len > size(storage)
              THEN last.result = OutOfBounds
              ELSE /\ last.result = FlashOk
                   /\ last.crc = hash(Slice(storage, last.addr, last.len))
          /\ last.op = "verify_crc" =>
              IF last.addr + last.len > size(storage)
              THEN last.result = OutOfBounds
              ELSE last.ok = (hash(Slice(storage, last.addr, last.len))
                                = last.expected_crc)
          /\ (last.op = "read" /\ last.addr + last.len > size(storage)) =>
              last.result = OutOfBounds
          /\ last.op = "write_region" =>
              \A wrap \in Builds(last.addr, last.data) :
                LET n == Len(last.data)
                    again == write_region(storage, last.addr, last.data, wrap)
                IN crc32(again.storage, last.addr, n).crc
                     = crc32(storage, last.addr, n).crc)

\* a checksum of a range above address 0 whose bytes differ from those at
\* the start of the device
C19_Witness ==
    /\ last.op = "crc32"
    /\ last.result = FlashOk
    /\ last.addr > 0
    /\ last.len > 0
    /\ Slice(storage, last.addr, last.len) # Slice(storage, 0, last.len)
\* the device calls the ordering rule prescribes for a write of n bytes at
\* addr: one erase per sector of the inclusive range, ascending, then for
\* each slice of at most page_size bytes, ascending, a program and a read
Prescribed(addr, n) ==
    LET lo == addr \div sector_size
        hi == (addr + n - 1) \div sector_size
        erases == [i \in 1..(IF hi >= lo THEN hi - lo + 1 ELSE 0) |->
                     [op |-> "erase_sector", addr |-> (lo + i - 1) * sector_size,
                      len |-> sector_size]]
        slices == (n + page_size - 1) \div page_size
        pages == [j \in 1..(2 * slices) |->
                    LET off == ((j - 1) \div 2) * page_size
                    IN [op |-> IF j % 2 = 1 THEN "program_page" ELSE "read",
                        addr |-> addr + off,
                        len |-> Min(page_size, n - off)]]
    IN erases \o pages

\* C20: the device calls of one write_region are a prefix of the prescribed
\* sequence (covering sectors erased ascending, then each page programmed
\* and verified, ascending); every call before the last succeeded; the call
\* returns Ok exactly when the whole sequence ran, and otherwise the error
\* of its last device call.
C20_WriteRegionOrder ==
    (last.op = "write_region" /\ last.addr + Len(last.data) <= size(storage)) =>
      LET tr == last.trace
          want == Prescribed(last.addr, Len(last.data))
      IN /\ Len(tr) <= Len(want)
         /\ \A i \in 1..Len(tr) :
              /\ tr[i].op = want[i].op
              /\ tr[i].addr = want[i].addr
              /\ tr[i].len = want[i].len
              /\ i < Len(tr) => tr[i].res = "Ok"
         /\ IF last.result = FlashOk
            THEN Len(tr) = Len(want) /\ \A i \in 1..Len(tr) : tr[i].res = "Ok"
            ELSE /\ Len(tr) >= 1
                 /\ \/ tr[Len(tr)].res = last.result.kind
                    \/ /\ tr[Len(tr)].op = "read"
                       /\ tr[Len(tr)].res = "Ok"
                       /\ last.result.kind = "VerificationFailed"
\* the calls of a trace that returned an error
Failures(tr) == {i \in 1..Len(tr) : tr[i].res # "Ok"}

\* C21: a write_chunk at offset = written adds exactly data.len() to written
\* when write_region succeeds; when write_region returns an error, the
\* result is that error wrapped as UpdateError::Flash, written and the
\* session are unchanged, no device call follows the failed one, and the
\* same offset still passes the offset check.  written never decreases.
C21_WriteChunkAccounting ==
    [][/\ \A s \in sessions : \A t \in sessions' : t.written >= s.written
       /\ \A s \in sessions :
            (last'.op = "write_chunk" /\ last'.offset = s.written) =>
              IF last'.result.kind = "Ok"
              THEN /\ \A t \in sessions' : t.written = s.written + last'.len
                   /\ sessions' # {}
                   /\ Failures(last'.trace) = {}
              ELSE /\ sessions' = sessions
                   /\ \A t \in sessions' : last'.offset = t.written
                   /\ Failures(last'.trace) \subseteq {Len(last'.trace)}
                   /\ last'.result.kind # "Panic" =>
                        /\ last'.result.kind = "Flash"
                        /\ IF Failures(last'.trace) # {}
                           THEN last'.result.flash.kind
                                  = last'.trace[Len(last'.trace)].res
                           ELSE /\ last'.trace = <<>>
                                /\ last'.result.flash = OutOfBounds
                                /\ s.meta.target_addr + last'.offset + last'.len
                                     > size(storage)]_vars

\* a write_chunk at the right offset, after an accepted chunk, that failed in
\* write_region and left written where it was
C21_Witness ==
    /\ last.op = "write_chunk"
    /\ last.result.kind = "Flash"
    /\ \E s \in sessions : s.written > 0 /\ last.offset = s.written
\* C22: a program_page that returns an error leaves every byte of the
\* device as it was before the call.
C22_ProgramAllOrNothing ==
    [][(last'.op = "program_page" /\ last'.result.kind # "Ok") =>
         storage' = storage]_vars
\* the addresses of the sectors that share a byte with [addr, addr + n)
Overlapping(addr, n) ==
    {a \in DOMAIN storage :
       \E b \in addr..(addr + n - 1) : b \div sector_size = a \div sector_size}

\* C23: after a successful write_region(addr, data) every byte outside the
\* sectors that overlap [addr, addr + len) is unchanged, and every byte of
\* those sectors outside [addr, addr + len) is 0xFF.
C23_WriteRegionFrame ==
    [][(last'.op = "write_region" /\ last'.result.kind = "Ok") =>
         LET n == Len(last'.data)
             inside == Overlapping(last'.addr, n)
         IN \A a \in DOMAIN storage :
              /\ a \notin inside => storage'[a] = storage[a]
              /\ (a \in inside /\ (a < last'.addr \/ a >= last'.addr + n)) =>
                   storage'[a] = ERASED]_vars
\* the device calls of a trace that erased or programmed bytes
Mutations(tr) ==
    {i \in 1..Len(tr) : tr[i].op \in {"erase_sector", "program_page"}
                          /\ tr[i].res = "Ok"}

\* no byte outside the sectors that overlap the image region of meta is
\* changed by the step, and no erase or program of its trace touches one
Contained(meta, tr) ==
    LET region == Overlapping(meta.target_addr, meta.image_size)
    IN /\ \A a \in DOMAIN storage \ region : storage'[a] = storage[a]
       /\ \A i \in Mutations(tr) :
            \A a \in tr[i].addr..(tr[i].addr + tr[i].len - 1) : a \in region

\* C24: no begin_update, write_chunk or finalize_update of a session erases
\* or programs a byte outside the sectors that overlap
\* [target_addr, target_addr + image_size).
C24_SessionContained ==
    [][/\ last'.op = "begin_update" => Contained(last'.meta, last'.trace)
       /\ last'.op = "write_chunk" =>
            \A s \in sessions : Contained(s.meta, last'.trace)
       /\ last'.op = "finalize_update" =>
            Contained(last'.self.meta, last'.trace)]_vars
\* the device calls of a trace that are erases or programs, whatever they
\* returned
Attempts(tr) ==
    {i \in 1..Len(tr) : tr[i].op \in {"erase_sector", "program_page"}}

\* C25: write_region(addr, <<>>) with addr within the device, and
\* write_chunk(written, <<>>) whose absolute address is within the device,
\* return Ok, issue no erase and no program, and leave every flash byte and
\* written unchanged, also at address 0.
C25_EmptyWriteNoOp ==
    [][/\ (/\ last'.op = "write_region"
            /\ last'.data = <<>>
            /\ last'.addr <= size(storage)) =>
              /\ last'.result = FlashOk
              /\ Attempts(last'.trace) = {}
              /\ storage' = storage
       /\ \A s \in sessions :
            (/\ last'.op = "write_chunk"
             /\ last'.len = 0
             /\ last'.offset = s.written
             /\ s.meta.target_addr + s.written <= size(storage)) =>
               /\ last'.result = UpdateOk
               /\ Attempts(last'.trace) = {}
               /\ storage' = storage
               /\ sessions' = sessions]_vars
\* C26: a begin_update that returns an error creates no session and leaves
\* every flash byte as it was before the call.
C26_BeginFailsCleanly ==
    [][(last'.op = "begin_update" /\ last'.result.kind # "Ok") =>
         /\ sessions' = sessions
         /\ storage' = storage]_vars
Ceil(a, b) == (a + b - 1) \div b

\* the calls of a trace with the given operation
CallsOf(tr, op) == {i \in 1..Len(tr) : tr[i].op = op}

\* C27: on a device with sector_size >= 1 and page_size >= 1, begin_update
\* makes at most ceil(image_size / sector_size) + 1 erase attempts,
\* write_region erases no sector outside the covering range and programs at
\* most ceil(len / page_size) pages, and verify_bytes makes at most
\* ceil(len / 256) reads; on a device with sector_size = 0 or page_size = 0
\* begin_update (sector_size = 0), write_region and write_chunk return an
\* error value.
C27_OperationsBounded ==
    /\ (sector_size >= 1 /\ page_size >= 1) =>
         /\ last.op = "begin_update" =>
              Cardinality(CallsOf(last.trace, "erase_sector"))
                <= Ceil(last.meta.image_size, sector_size) + 1
         /\ last.op = "write_region" =>
              LET n == Len(last.data)
                  lo == last.addr \div sector_size
                  hi == (last.addr + n - 1) \div sector_size
              IN /\ \A i \in CallsOf(last.trace, "erase_sector") :
                      last.trace[i].res = "Ok" =>
                        (last.trace[i].addr \div sector_size) \in lo..hi
                 /\ Cardinality(CallsOf(last.trace, "program_page"))
                      <= Ceil(n, page_size)
         /\ last.op = "verify_bytes" =>
              Cardinality(CallsOf(last.trace, "read"))
                <= Ceil(Len(last.data), BUF_LEN)
    /\ (sector_size = 0 \/ page_size = 0) =>
         /\ (last.op = "begin_update" /\ sector_size = 0) =>
              last.result.kind \notin {"Ok", "Panic"}
         /\ last.op \in {"write_region", "write_chunk"} =>
              last.result.kind \notin {"Ok", "Panic"}

====
